---- MODULE Spec2Model ----
(***************************************************************************)
(* Model of hyrox_data_cleaning.py: a batch script that loads a table of   *)
(* race results, repairs event names, derives championship flag, year and  *)
(* city, converts duration strings to seconds, validates completion, fills *)
(* missing values, builds one nested document per row and writes the       *)
(* documents as newline-delimited JSON.                                    *)
(*                                                                         *)
(* Text that the script inspects character by character (event_name, the   *)
(* duration strings, event_year before its conversion) is a sequence of    *)
(* Python text is a sequence of one-character strings, so that the script's *)
(* splitting, searching and parsing are computed character by character.   *)
(* Every cell value carries its Python type as its single record field:    *)
(*   [str |-> s]  [int |-> n]  [bool |-> b]  [float |-> "nan"]             *)
(*   [none |-> TRUE]  [na |-> TRUE]                                        *)
(***************************************************************************)
EXTENDS Integers, Sequences, FiniteSets, TLC

VARIABLES
    csv,              \* the rows of the input file, as pd.read_csv returns them
    pc,               \* the statement the script is about to run
    df,               \* the DataFrame: a sequence of rows, each a record column -> value
    mongo_documents,  \* the list built at line 215
    f_open,           \* TRUE once open(output_file, 'w') has run
    f,                \* the lines written to the output file
    exc               \* the exception that ended the run, or "none"

vars == <<csv, pc, df, mongo_documents, f_open, f, exc>>

-----------------------------------------------------------------------------
(* Bounds of the model *)

MaxLen == 6        \* longest duration text drawn in SpecTime
MaxTokens == 5     \* most whitespace-separated words of an event_name in SpecCity
MaxBad == 2        \* most split durations that differ from a plain finished one in SpecValid
MaxRows == 2       \* most rows of the input file in Spec

-----------------------------------------------------------------------------
(* Python values *)

Str(s) == [str |-> s]
PyInt(n) == [int |-> n]
PyBool(b) == [bool |-> b]
NaN == [float |-> "nan"]
None == [none |-> TRUE]
NA == [na |-> TRUE]       \* pd.NA, the missing value of the nullable Int64 dtype

IsStr(v) == DOMAIN v = {"str"}
IsInt(v) == DOMAIN v = {"int"}

\* pd.isna / pd.notna on a scalar: NaN, None and pd.NA are missing
isna(v) == v = NaN \/ v = None \/ v = NA
notna(v) == ~isna(v)

-----------------------------------------------------------------------------
(* Python str operations, on sequences of characters *)

Digit == {"0", "1", "2", "3", "4", "5", "6", "7", "8", "9"}

DigitVal(c) ==
    CASE c = "0" -> 0 [] c = "1" -> 1 [] c = "2" -> 2 [] c = "3" -> 3 [] c = "4" -> 4
      [] c = "5" -> 5 [] c = "6" -> 6 [] c = "7" -> 7 [] c = "8" -> 8 [] c = "9" -> 9

DigitChar(d) == <<"0", "1", "2", "3", "4", "5", "6", "7", "8", "9">>[d + 1]

\* str.isdigit(): non-empty and every character a digit
isdigit(s) == Len(s) > 0 /\ \A i \in 1..Len(s) : s[i] \in Digit

\* the first index at which sub occurs in s, 0 when it does not (str.find + 1)
find(s, sub) ==
    LET hits == {i \in 1..(Len(s) - Len(sub) + 1) : SubSeq(s, i, i + Len(sub) - 1) = sub}
    IN  IF hits = {} THEN 0 ELSE CHOOSE i \in hits : \A j \in hits : i <= j

\* sub in s
contains(s, sub) == find(s, sub) # 0

\* s.split(sep) for a non-empty separator: all the parts, empty ones included
RECURSIVE split_sep(_, _)
split_sep(s, sep) ==
    LET i == find(s, sep)
    IN  IF i = 0 THEN <<s>>
        ELSE <<SubSeq(s, 1, i - 1)>> \o split_sep(SubSeq(s, i + Len(sep), Len(s)), sep)

\* s with its leading whitespace removed
RECURSIVE lstrip(_)
lstrip(s) == IF Len(s) > 0 /\ s[1] = " " THEN lstrip(Tail(s)) ELSE s

\* the length of the first word of s when s starts with a non-space character
RECURSIVE wordlen(_)
wordlen(s) == IF Len(s) = 0 \/ s[1] = " " THEN 0 ELSE 1 + wordlen(Tail(s))

\* s.split(maxsplit=n): words separated by runs of whitespace; after n splits
\* the rest of the text, leading whitespace removed, is the last part
RECURSIVE split_max(_, _)
split_max(s, n) ==
    LET t == lstrip(s)
        w == wordlen(t)
    IN  IF Len(t) = 0 THEN <<>>
        ELSE IF n = 0 THEN <<t>>
        ELSE <<SubSeq(t, 1, w)>> \o split_max(SubSeq(t, w + 1, Len(t)), n - 1)

\* s.split(): no limit on the number of splits
split(s) == split_max(s, Len(s))

\* int(text): optional sign then decimal digits; anything else raises ValueError
RECURSIVE digits_value(_)
digits_value(s) ==
    IF Len(s) = 0 THEN 0 ELSE 10 * digits_value(SubSeq(s, 1, Len(s) - 1)) + DigitVal(s[Len(s)])

py_int(s) ==
    LET signed == Len(s) > 0 /\ s[1] \in {"-", "+"}
        body == IF signed THEN Tail(s) ELSE s
    IN  IF ~isdigit(body) THEN [raised |-> TRUE, val |-> 0]
        ELSE [raised |-> FALSE,
              val |-> IF signed /\ s[1] = "-" THEN 0 - digits_value(body) ELSE digits_value(body)]

-----------------------------------------------------------------------------
(* STEP 1: load *)

\* line 13: df = pd.read_csv(...)
LoadData ==
    /\ pc = "load"
    /\ df' = csv
    /\ pc' = "fix_names"
    /\ UNCHANGED <<csv, mongo_documents, f_open, f, exc>>

-----------------------------------------------------------------------------
(* STEP 2: fix event names *)

\* lines 23-29: the (event_id, event_name) pairs of the dict
CorrectionPairs ==
    {<<<<"J", "G", "D", "M", "S", "4", "J", "I", "5", "C", "9">>,
       <<"S", "6", " ", "2", "0", "2", "3", " ", "M", "u", "n", "i", "c", "h">>>>,
     <<<<"J", "G", "D", "M", "S", "4", "J", "I", "4", "6", "4">>,
       <<"S", "5", " ", "2", "0", "2", "3", " ", "M", "u", "n", "i", "c", "h">>>>,
     <<<<"2", "E", "F", "M", "S", "4", "J", "I", "2", "B", "E">>,
       <<"S", "4", " ", "2", "0", "2", "2", " ", "M", "u", "n", "i", "c", "h">>>>,
     <<<<"J", "G", "D", "M", "S", "4", "J", "I", "4", "6", "D">>,
       <<"S", "6", " ", "2", "0", "2", "3", " ", "M", "a", "l", "m", "o">>>>,
     <<<<"J", "G", "D", "M", "S", "4", "J", "I", "4", "6", "8">>,
       <<"S", "5", " ", "2", "0", "2", "3", " ", "K", "o", "l", "n">>>>}

CorrectionKeys == {p[1] : p \in CorrectionPairs}

event_corrections == [id \in CorrectionKeys |-> (CHOOSE p \in CorrectionPairs : p[1] = id)[2]]

\* df['event_id'].isin(event_corrections.keys())
is_corrected(row) == IsStr(row.event_id) /\ row.event_id.str \in DOMAIN event_corrections

fix_event_name(row) ==
    IF is_corrected(row)
    THEN [row EXCEPT !.event_name = Str(event_corrections[row.event_id.str])]
    ELSE row

\* line 31
FixEventNames ==
    /\ pc = "fix_names"
    /\ df' = [k \in DOMAIN df |-> fix_event_name(df[k])]
    /\ pc' = "flag"
    /\ UNCHANGED <<csv, mongo_documents, f_open, f, exc>>

-----------------------------------------------------------------------------
(* STEP 3: is_championship *)

Upper ==
    <<"A", "B", "C", "D", "E", "F", "G", "H", "I", "J", "K", "L", "M",
      "N", "O", "P", "Q", "R", "S", "T", "U", "V", "W", "X", "Y", "Z">>

LowerOf ==
    <<"a", "b", "c", "d", "e", "f", "g", "h", "i", "j", "k", "l", "m",
      "n", "o", "p", "q", "r", "s", "t", "u", "v", "w", "x", "y", "z">>

lower_char(c) ==
    IF \E k \in 1..26 : Upper[k] = c THEN LowerOf[CHOOSE k \in 1..26 : Upper[k] = c] ELSE c

lower(s) == [i \in 1..Len(s) |-> lower_char(s[i])]

Championship == <<"C", "h", "a", "m", "p", "i", "o", "n", "s", "h", "i", "p">>
Championships == <<"C", "h", "a", "m", "p", "i", "o", "n", "s", "h", "i", "p", "s">>

\* .str.contains('Championship', case=False, na=False)
str_contains_championship(v) == IsStr(v) /\ contains(lower(v.str), lower(Championship))

with_column(row, name, val) == [c \in DOMAIN row \cup {name} |-> IF c = name THEN val ELSE row[c]]

\* line 43
CreateChampionshipFlag ==
    /\ pc = "flag"
    /\ df' = [k \in DOMAIN df |->
                with_column(df[k], "is_championship", PyBool(str_contains_championship(df[k].event_name)))]
    /\ pc' = "year"
    /\ UNCHANGED <<csv, mongo_documents, f_open, f, exc>>

-----------------------------------------------------------------------------
(* STEP 4: event_year and event_city *)

\* .str.extract(r'(\d{4})'): the first four consecutive digits, wherever they are
str_extract_year(v) ==
    IF ~IsStr(v) THEN NaN
    ELSE
        LET s == v.str
            hits == {i \in 1..(Len(s) - 3) : \A j \in i..(i + 3) : s[j] \in Digit}
        IN  IF hits = {} THEN NaN
            ELSE LET i == CHOOSE h \in hits : \A g \in hits : h <= g
                 IN  Str(SubSeq(s, i, i + 3))

\* line 56
ExtractYear ==
    /\ pc = "year"
    /\ df' = [k \in DOMAIN df |-> with_column(df[k], "event_year", str_extract_year(df[k].event_name))]
    /\ pc' = "city"
    /\ UNCHANGED <<csv, mongo_documents, f_open, f, exc>>

Returned(v) == [raised |-> "none", val |-> v]
Raised(e) == [raised |-> e, val |-> None]

Last(s) == s[Len(s)]

\* lines 58-79.  In the last championship branch city is assigned only inside
\* the loop, so a name without a 4-digit word reaches "return city" with city
\* unbound.
extract_city(row) ==
    IF ~IsStr(row.event_name) THEN Raised("AttributeError")
    ELSE
        LET event_name == row.event_name.str
            is_champ == row.is_championship.bool
        IN  IF is_champ THEN
                IF contains(event_name, <<" ", "-", " ">>) THEN
                    LET city == split_sep(event_name, <<" ", "-", " ">>)[1]
                        parts == split_max(city, 2)
                    IN  IF parts = <<>> THEN Raised("IndexError") ELSE Returned(Str(Last(parts)))
                ELSE IF contains(event_name, Championships) /\ Last(split(event_name)) # Championships THEN
                    Returned(Str(Last(split(event_name))))
                ELSE
                    LET parts == split(event_name)
                        hits == {i \in 1..Len(parts) : isdigit(parts[i]) /\ Len(parts[i]) = 4}
                    IN  IF hits = {} THEN Raised("UnboundLocalError")
                        ELSE LET i == CHOOSE h \in hits : \A g \in hits : h <= g
                             IN  IF i + 1 <= Len(parts) THEN Returned(Str(parts[i + 1]))
                                 ELSE Returned(None)
            ELSE
                LET parts == split_max(event_name, 2)
                IN  IF Len(parts) > 2 THEN Returned(Str(parts[3])) ELSE Returned(None)

\* line 81: df.apply(extract_city, axis=1); an exception in any row ends the script
ExtractCity ==
    /\ pc = "city"
    /\ LET res == [k \in DOMAIN df |-> extract_city(df[k])]
           bad == {k \in DOMAIN df : res[k].raised # "none"}
       IN  IF bad = {}
           THEN /\ df' = [k \in DOMAIN df |-> with_column(df[k], "event_city", res[k].val)]
                /\ pc' = "astype"
                /\ exc' = exc
           ELSE /\ df' = df
                /\ pc' = "failed"
                /\ exc' = res[CHOOSE k \in bad : \A j \in bad : k <= j].raised
    /\ UNCHANGED <<csv, mongo_documents, f_open, f>>

\* astype('Int64') of one cell: digits become the integer, a missing value pd.NA
to_Int64(v) == IF IsStr(v) THEN PyInt(py_int(v.str).val) ELSE NA

\* line 82
AstypeYear ==
    /\ pc = "astype"
    /\ df' = [k \in DOMAIN df |-> [df[k] EXCEPT !.event_year = to_Int64(@)]]
    /\ pc' = "times"
    /\ UNCHANGED <<csv, mongo_documents, f_open, f, exc>>

-----------------------------------------------------------------------------
(* STEP 5: time_to_seconds *)

ZeroTime == <<"0", ":", "0", "0", ":", "0", "0">>

time_to_seconds_hours_as_minutes(time_str) ==
    IF isna(time_str) \/ time_str = Str(<<>>) \/ time_str = Str(ZeroTime) THEN 0
    ELSE
        LET parts == split_sep(time_str.str, <<":">>)
            n == [k \in 1..Len(parts) |-> py_int(parts[k])]
        IN  IF Len(parts) = 3 THEN
                IF n[1].raised \/ n[2].raised \/ n[3].raised THEN 0
                ELSE n[1].val * 60 + n[2].val * 60 + n[3].val
            ELSE IF Len(parts) = 2 THEN
                IF n[1].raised \/ n[2].raised THEN 0
                ELSE n[1].val * 60 + n[2].val
            ELSE 0

\* the bare except turns every exception of int() into the result 0
time_to_seconds(time_str) ==
    IF isna(time_str) \/ time_str = Str(<<>>) \/ time_str = Str(ZeroTime) THEN 0
    ELSE
        LET parts == split_sep(time_str.str, <<":">>)
            n == [k \in 1..Len(parts) |-> py_int(parts[k])]
        IN  IF Len(parts) = 3 THEN
                IF n[1].raised \/ n[2].raised \/ n[3].raised THEN 0
                ELSE n[1].val * 3600 + n[2].val * 60 + n[3].val
            ELSE IF Len(parts) = 2 THEN
                IF n[1].raised \/ n[2].raised THEN 0
                ELSE n[1].val * 60 + n[2].val
            ELSE 0

time_columns ==
    <<"total_time", "work_time", "roxzone_time", "run_time", "run_1", "run_2", "run_3",
      "run_4", "run_5", "run_6", "run_7", "run_8", "work_1", "work_2", "work_3", "work_4",
      "work_5", "work_6", "work_7", "work_8", "roxzone_1", "roxzone_2", "roxzone_3",
      "roxzone_4", "roxzone_5", "roxzone_6", "roxzone_7", "roxzone_8">>

TimeColumnSet == {time_columns[k] : k \in 1..Len(time_columns)}

run_col == <<"run_1", "run_2", "run_3", "run_4", "run_5", "run_6", "run_7", "run_8">>
work_col == <<"work_1", "work_2", "work_3", "work_4", "work_5", "work_6", "work_7", "work_8">>
roxzone_col ==
    <<"roxzone_1", "roxzone_2", "roxzone_3", "roxzone_4", "roxzone_5", "roxzone_6",
      "roxzone_7", "roxzone_8">>

\* f'{col}_seconds'
seconds_col(col) ==
    CASE col = "total_time" -> "total_time_seconds"
      [] col = "work_time" -> "work_time_seconds"
      [] col = "roxzone_time" -> "roxzone_time_seconds"
      [] col = "run_time" -> "run_time_seconds"
      [] col = "run_1" -> "run_1_seconds"
      [] col = "run_2" -> "run_2_seconds"
      [] col = "run_3" -> "run_3_seconds"
      [] col = "run_4" -> "run_4_seconds"
      [] col = "run_5" -> "run_5_seconds"
      [] col = "run_6" -> "run_6_seconds"
      [] col = "run_7" -> "run_7_seconds"
      [] col = "run_8" -> "run_8_seconds"
      [] col = "work_1" -> "work_1_seconds"
      [] col = "work_2" -> "work_2_seconds"
      [] col = "work_3" -> "work_3_seconds"
      [] col = "work_4" -> "work_4_seconds"
      [] col = "work_5" -> "work_5_seconds"
      [] col = "work_6" -> "work_6_seconds"
      [] col = "work_7" -> "work_7_seconds"
      [] col = "work_8" -> "work_8_seconds"
      [] col = "roxzone_1" -> "roxzone_1_seconds"
      [] col = "roxzone_2" -> "roxzone_2_seconds"
      [] col = "roxzone_3" -> "roxzone_3_seconds"
      [] col = "roxzone_4" -> "roxzone_4_seconds"
      [] col = "roxzone_5" -> "roxzone_5_seconds"
      [] col = "roxzone_6" -> "roxzone_6_seconds"
      [] col = "roxzone_7" -> "roxzone_7_seconds"
      [] col = "roxzone_8" -> "roxzone_8_seconds"

\* the columns of a row after the loop of lines 116-117
with_seconds(row) ==
    LET new == {seconds_col(c) : c \in TimeColumnSet}
        src(name) == CHOOSE c \in TimeColumnSet : seconds_col(c) = name
    IN  [c \in DOMAIN row \cup new |->
            IF c \in new THEN PyInt(time_to_seconds(row[src(c)])) ELSE row[c]]

\* lines 116-117: for col in time_columns: df[f'{col}_seconds'] = df[col].apply(time_to_seconds)
ConvertTimes ==
    /\ pc = "times"
    /\ df' = [k \in DOMAIN df |-> with_seconds(df[k])]
    /\ pc' = "valid"
    /\ UNCHANGED <<csv, mongo_documents, f_open, f, exc>>

-----------------------------------------------------------------------------
(* STEP 6: check_valid_completion *)

RECURSIVE valid_from_zero_ok(_, _)
valid_from_zero_ok(row, i) ==
    IF i > 8 THEN TRUE
    ELSE IF row[seconds_col(run_col[i])].int < 0 \/ row[seconds_col(work_col[i])].int < 0 THEN FALSE
    ELSE valid_from_zero_ok(row, i + 1)

\* a mutation: "< 0" for "<= 0"
check_valid_completion_zero_ok(row) == valid_from_zero_ok(row, 1)

\* the loop of lines 133-139 from index i on, with its early return
RECURSIVE valid_from(_, _)
valid_from(row, i) ==
    IF i > 8 THEN TRUE
    ELSE IF row[seconds_col(run_col[i])].int <= 0 \/ row[seconds_col(work_col[i])].int <= 0 THEN FALSE
    ELSE valid_from(row, i + 1)

check_valid_completion(row) == valid_from(row, 1)

\* line 143
Validate ==
    /\ pc = "valid"
    /\ df' = [k \in DOMAIN df |-> with_column(df[k], "is_valid", PyBool(check_valid_completion(df[k])))]
    /\ pc' = "fillna"
    /\ UNCHANGED <<csv, mongo_documents, f_open, f, exc>>

-----------------------------------------------------------------------------
(* STEP 7: missing values *)

Unknown == <<"U", "n", "k", "n", "o", "w", "n">>
NotSpecified == <<"N", "o", "t", " ", "s", "p", "e", "c", "i", "f", "i", "e", "d">>

\* a mutation: the default replaces the values that are present too
fillna_every_value(v, default) == Str(default)

fillna(v, default) == IF isna(v) THEN Str(default) ELSE v

\* lines 157-158
FillMissing ==
    /\ pc = "fillna"
    /\ df' = [k \in DOMAIN df |->
                [df[k] EXCEPT !.nationality = fillna(@, Unknown), !.age_group = fillna(@, NotSpecified)]]
    /\ pc' = "build"
    /\ UNCHANGED <<csv, mongo_documents, f_open, f, exc>>

-----------------------------------------------------------------------------
(* STEP 8: create_mongo_document *)

split_entry(row, i) ==
    [split_number |-> PyInt(i),
     run_time |-> row[run_col[i]],
     run_seconds |-> PyInt(row[seconds_col(run_col[i])].int),
     work_time |-> row[work_col[i]],
     work_seconds |-> PyInt(row[seconds_col(work_col[i])].int),
     roxzone_time |-> row[roxzone_col[i]],
     roxzone_seconds |-> PyInt(row[seconds_col(roxzone_col[i])].int)]

\* a mutation: range(1, 8) for range(1, 9)
splits_of_seven(row) == [i \in 1..7 |-> split_entry(row, i)]

\* lines 172-183
splits_of(row) == [i \in 1..8 |-> split_entry(row, i)]

\* line 189
event_year_of(row) == IF notna(row.event_year) THEN PyInt(row.event_year.int) ELSE None

\* lines 185-212
create_mongo_document(row) ==
    [event |->
        [event_id |-> row.event_id,
         event_name |-> row.event_name,
         event_year |-> event_year_of(row),
         event_city |-> row.event_city,
         is_championship |-> PyBool(row.is_championship.bool)],
     athlete |->
        [gender |-> row.gender,
         nationality |-> row.nationality,
         age_group |-> row.age_group,
         division |-> row.division],
     performance |->
        [total_time |-> row.total_time,
         total_seconds |-> PyInt(row.total_time_seconds.int),
         work_time |-> row.work_time,
         work_seconds |-> PyInt(row.work_time_seconds.int),
         roxzone_time |-> row.roxzone_time,
         roxzone_seconds |-> PyInt(row.roxzone_time_seconds.int),
         run_time |-> row.run_time,
         run_seconds |-> PyInt(row.run_time_seconds.int),
         is_valid |-> PyBool(row.is_valid.bool)],
     splits |-> splits_of(row)]

\* a mutation: only the rows of athletes who finished become documents
documents_of_valid_rows(d) ==
    LET RECURSIVE keep(_)
        keep(k) ==
            IF k > Len(d) THEN <<>>
            ELSE IF d[k].is_valid.bool THEN <<create_mongo_document(d[k])>> \o keep(k + 1)
            ELSE keep(k + 1)
    IN  keep(1)

\* line 215: [create_mongo_document(row) for _, row in df.iterrows()]
documents_of(d) == [k \in 1..Len(d) |-> create_mongo_document(d[k])]

BuildDocuments ==
    /\ pc = "build"
    /\ mongo_documents' = documents_of(df)
    /\ pc' = "open"
    /\ UNCHANGED <<csv, df, f_open, f, exc>>

-----------------------------------------------------------------------------
(* STEP 9: json.dumps and the write loop *)

\* the decimal text of an integer
RECURSIVE nat_repr(_)
nat_repr(n) == IF n < 10 THEN <<DigitChar(n)>> ELSE nat_repr(n \div 10) \o <<DigitChar(n % 10)>>

int_repr(n) == IF n < 0 THEN <<"-">> \o nat_repr(0 - n) ELSE nat_repr(n)

\* inside a JSON string the quote and the backslash are written with a backslash
RECURSIVE escape(_)
escape(s) ==
    IF Len(s) = 0 THEN <<>>
    ELSE IF s[1] \in {"\"", "\\"} THEN <<"\\", s[1]>> \o escape(Tail(s))
    ELSE <<s[1]>> \o escape(Tail(s))

RECURSIVE unescape(_)
unescape(s) ==
    IF Len(s) = 0 THEN <<>>
    ELSE IF s[1] = "\\" /\ Len(s) > 1 THEN <<s[2]>> \o unescape(SubSeq(s, 3, Len(s)))
    ELSE <<s[1]>> \o unescape(Tail(s))

\* what json.dumps(..., ensure_ascii=False) writes for one value; allow_nan is
\* left at its default, so a float NaN is written as the bare word NaN
json_value(v) ==
    CASE IsStr(v) -> [tok |-> "string", text |-> escape(v.str)]
      [] IsInt(v) -> [tok |-> "number", text |-> int_repr(v.int)]
      [] DOMAIN v = {"bool"} ->
            [tok |-> "word", text |-> IF v.bool THEN <<"t", "r", "u", "e">> ELSE <<"f", "a", "l", "s", "e">>]
      [] v = None -> [tok |-> "word", text |-> <<"n", "u", "l", "l">>]
      [] v = NaN -> [tok |-> "word", text |-> <<"N", "a", "N">>]
      [] OTHER -> [tok |-> "TypeError", text |-> <<>>]

dumps_object(o) == [k \in DOMAIN o |-> json_value(o[k])]

\* the written line keeps the nesting of the document
dumps_document(doc) ==
    [event |-> dumps_object(doc.event),
     athlete |-> dumps_object(doc.athlete),
     performance |-> dumps_object(doc.performance),
     splits |-> [i \in DOMAIN doc.splits |-> dumps_object(doc.splits[i])]]

values_of(o) == {o[k] : k \in DOMAIN o}

leaves(doc) ==
    values_of(doc.event) \cup values_of(doc.athlete) \cup values_of(doc.performance)
        \cup UNION {values_of(doc.splits[i]) : i \in DOMAIN doc.splits}

\* a mutation: json.dumps(doc, allow_nan=False), which raises ValueError on NaN
json_dumps_no_nan(doc) ==
    LET line == dumps_document(doc)
    IN  IF \E t \in leaves(line) : t.tok = "TypeError" THEN [raised |-> "TypeError", line |-> <<>>]
        ELSE IF NaN \in leaves(doc) THEN [raised |-> "ValueError", line |-> <<>>]
        ELSE [raised |-> "none", line |-> line]

\* json.dumps(doc, ensure_ascii=False): the line, value by value
json_dumps(doc) ==
    LET line == dumps_document(doc)
    IN  IF \E t \in leaves(line) : t.tok = "TypeError" THEN [raised |-> "TypeError", line |-> <<>>]
        ELSE [raised |-> "none", line |-> line]

\* line 227: open(output_file, 'w', encoding='utf-8') creates or truncates the file
OpenFile ==
    /\ pc = "open"
    /\ f_open' = TRUE
    /\ f' = <<>>
    /\ pc' = "write"
    /\ UNCHANGED <<csv, df, mongo_documents, exc>>

\* lines 228-229: one turn of the loop serializes the next document and writes it
WriteLine ==
    /\ pc = "write"
    /\ Len(f) < Len(mongo_documents)
    /\ LET r == json_dumps(mongo_documents[Len(f) + 1])
       IN  IF r.raised = "none"
           THEN /\ f' = Append(f, r.line)
                /\ UNCHANGED <<pc, exc>>
           ELSE /\ pc' = "failed"
                /\ exc' = r.raised
                /\ f' = f
    /\ UNCHANGED <<csv, df, mongo_documents, f_open>>

\* the end of the with block; lines 231-270 only print
Finish ==
    /\ pc = "write"
    /\ Len(f) = Len(mongo_documents)
    /\ pc' = "done"
    /\ UNCHANGED <<csv, df, mongo_documents, f_open, f, exc>>

-----------------------------------------------------------------------------
(* Input rows *)

SourceColumns == {"event_id", "event_name", "gender", "nationality", "age_group", "division"}

\* a row as read from the file: the six descriptive columns and the 28 durations
MakeRow(event_id, event_name, nationality, age_group, times) ==
    [c \in SourceColumns \cup TimeColumnSet |->
        CASE c = "event_id" -> event_id
          [] c = "event_name" -> event_name
          [] c = "gender" -> Str(<<"m", "a", "l", "e">>)
          [] c = "nationality" -> nationality
          [] c = "age_group" -> age_group
          [] c = "division" -> Str(<<"o", "p", "e", "n">>)
          [] OTHER -> times[c]]

Corrected_id == Str(<<"J", "G", "D", "M", "S", "4", "J", "I", "5", "C", "9">>)
Other_id == Str(<<"L", "R", "3", "M", "S", "4", "J", "I", "3", "E", "8">>)

Garbled_name == <<"S", "6", " ", "2", "0", "2", "3", " ", "M", "?", "n", "c", "h", "e", "n">>
Bare_championship_name == <<"W", "o", "r", "l", "d", " ", "C", "h", "a", "m", "p", "i", "o", "n", "s", "h", "i", "p">>

Finished_time == <<"0", "5", ":", "3", "0">>

Empty_times == [c \in TimeColumnSet |-> NaN]
Finished_times == [c \in TimeColumnSet |-> Str(Finished_time)]
Unfinished_times ==
    [c \in TimeColumnSet |-> IF c \in {"run_3", "work_3", "roxzone_3"} THEN NaN ELSE Str(Finished_time)]

NoFile ==
    /\ mongo_documents = <<>>
    /\ f_open = FALSE
    /\ f = <<>>
    /\ exc = "none"

-----------------------------------------------------------------------------
(* The whole script, on files of 1..MaxRows rows *)

\* nationality and age_group: each of them missing in one pair, present in the other
Demographics == {<<NaN, Str(<<"2", "5", "-", "2", "9">>)>>, <<Str(<<"G", "E", "R">>), NaN>>}

PipeRows ==
    {MakeRow(id, Str(name), who[1], who[2], t) :
        id \in {Corrected_id, Other_id},
        name \in {Garbled_name, Bare_championship_name},
        who \in Demographics,
        t \in {Finished_times, Unfinished_times}}

\* a file with at least one row: what pandas does with an empty frame at
\* lines 81 and 266 is not visible in the script
Init ==
    /\ csv \in UNION {[1..n -> PipeRows] : n \in 1..MaxRows}
    /\ pc = "load"
    /\ df = <<>>
    /\ NoFile

Next ==
    \/ LoadData
    \/ FixEventNames
    \/ CreateChampionshipFlag
    \/ ExtractYear
    \/ ExtractCity
    \/ AstypeYear
    \/ ConvertTimes
    \/ Validate
    \/ FillMissing
    \/ BuildDocuments
    \/ OpenFile
    \/ WriteLine
    \/ Finish

Spec == Init /\ [][Next]_vars

-----------------------------------------------------------------------------
(* time_to_seconds on every duration text of at most MaxLen characters *)

TimeAlphabet == {"0", "1", ":", "x", "-"}

\* every text over TimeAlphabet, and the literal the code singles out
TimeTexts == UNION {[1..n -> TimeAlphabet] : n \in 0..MaxLen} \cup {ZeroTime}

InitTime ==
    /\ \E t \in {NaN} \cup {Str(s) : s \in TimeTexts} :
          csv = <<MakeRow(Other_id, Str(Garbled_name), NaN, NaN, [Empty_times EXCEPT !.total_time = t])>>
    /\ pc = "times"
    /\ df = csv
    /\ NoFile

NextTime == ConvertTimes

SpecTime == InitTime /\ [][NextTime]_vars

-----------------------------------------------------------------------------
(* check_valid_completion on rows where at most MaxBad split durations differ
   from a finished one *)

SplitColumns == {run_col[i] : i \in 1..8} \cup {work_col[i] : i \in 1..8} \cup {roxzone_col[i] : i \in 1..8}

OddTimes == {NaN, Str(<<"-", "1", ":", "0", "0">>), Str(<<"2", ":", "0", "0">>)}

RECURSIVE with_changes(_, _)
with_changes(times, ch) ==
    IF Len(ch) = 0 THEN times
    ELSE with_changes([times EXCEPT ![ch[1][1]] = ch[1][2]], Tail(ch))

InitValid ==
    /\ \E ch \in UNION {[1..n -> SplitColumns \X OddTimes] : n \in 0..MaxBad} :
          csv = <<MakeRow(Other_id, Str(Garbled_name), NaN, NaN, with_changes(Finished_times, ch))>>
    /\ pc = "times"
    /\ df = csv
    /\ NoFile

NextValid == ConvertTimes \/ Validate

SpecValid == InitValid /\ [][NextValid]_vars

-----------------------------------------------------------------------------
(* The event fields on every event_name of at most MaxTokens words *)

Vocabulary ==
    {<<"2", "0", "2", "3">>,
     <<"E", "u", "r", "o", "p", "e", "a", "n">>,
     <<"C", "h", "a", "m", "p", "i", "o", "n", "s", "h", "i", "p">>,
     <<"C", "h", "a", "m", "p", "i", "o", "n", "s", "h", "i", "p", "s">>,
     <<"-">>,
     <<"B", "e", "r", "l", "i", "n">>,
     <<"S", "2", "0", "2", "3", "1">>}

RECURSIVE join(_)
join(words) ==
    IF Len(words) = 0 THEN <<>>
    ELSE IF Len(words) = 1 THEN words[1]
    ELSE words[1] \o <<" ">> \o join(Tail(words))

EventNames == {join(w) : w \in UNION {[1..n -> Vocabulary] : n \in 1..MaxTokens}}

InitCity ==
    /\ \E name \in EventNames : csv = <<MakeRow(Other_id, Str(name), NaN, NaN, Empty_times)>>
    /\ pc = "flag"
    /\ df = csv
    /\ NoFile

NextCity == CreateChampionshipFlag \/ ExtractYear \/ ExtractCity \/ AstypeYear

SpecCity == InitCity /\ [][NextCity]_vars

-----------------------------------------------------------------------------
(* Reading a line back with a JSON parser (RFC 8259: true, false and null are
   the only bare words) *)

Invalid == [invalid |-> TRUE]

parse_value(t) ==
    CASE t.tok = "string" -> Str(unescape(t.text))
      [] t.tok = "number" /\ ~py_int(t.text).raised -> PyInt(py_int(t.text).val)
      [] t.tok = "word" /\ t.text = <<"t", "r", "u", "e">> -> PyBool(TRUE)
      [] t.tok = "word" /\ t.text = <<"f", "a", "l", "s", "e">> -> PyBool(FALSE)
      [] t.tok = "word" /\ t.text = <<"n", "u", "l", "l">> -> None
      [] OTHER -> Invalid

loads_object(o) == [k \in DOMAIN o |-> parse_value(o[k])]

json_loads(line) ==
    LET doc == [event |-> loads_object(line.event),
                athlete |-> loads_object(line.athlete),
                performance |-> loads_object(line.performance),
                splits |-> [i \in DOMAIN line.splits |-> loads_object(line.splits[i])]]
    IN  [valid |-> Invalid \notin leaves(doc), doc |-> doc]

-----------------------------------------------------------------------------
(* Properties *)

Rows == DOMAIN df

CityExtracted == pc \in {"astype", "times"}

\* C1: city extraction is total: for every row whose event_name is a string
\* extract_city returns a city string or null and no exception ends the run.
C1_CityExtractionTotal ==
    (\A k \in Rows : IsStr(df[k].event_name)) =>
        /\ exc = "none"
        /\ pc # "failed"
        /\ CityExtracted =>
                \A k \in Rows :
                    "event_city" \in DOMAIN df[k] /\ (IsStr(df[k].event_city) \/ df[k].event_city = None)

Berlin_name == <<"2", "0", "2", "3", " ", "E", "u", "r", "o", "p", "e", "a", "n", " ", "C", "h", "a", "m", "p", "i", "o", "n", "s", "h", "i", "p", " ", "-", " ", "B", "e", "r", "l", "i", "n">>

\* C2: for the championship name "2023 European Championship - Berlin" the
\* extracted city is "Berlin".
C2_BerlinCity ==
    \A k \in Rows :
        CityExtracted /\ df[k].event_name = Str(Berlin_name) /\ df[k].is_championship = PyBool(TRUE)
            => df[k].event_city = Str(<<"B", "e", "r", "l", "i", "n">>)

\* the value of a part made of an optional sign and digits, digit by position
RECURSIVE pow10(_)
pow10(n) == IF n = 0 THEN 1 ELSE 10 * pow10(n - 1)

RECURSIVE weighted(_, _)
weighted(s, i) ==
    IF i > Len(s) THEN 0 ELSE DigitVal(s[i]) * pow10(Len(s) - i) + weighted(s, i + 1)

unsigned(p) == IF Len(p) > 0 /\ p[1] \in {"-", "+"} THEN SubSeq(p, 2, Len(p)) ELSE p

numeric(p) == Len(unsigned(p)) > 0 /\ \A i \in 1..Len(unsigned(p)) : unsigned(p)[i] \in Digit

number(p) == IF Len(p) > 0 /\ p[1] = "-" THEN 0 - weighted(unsigned(p), 1) ELSE weighted(unsigned(p), 1)

\* the seconds the duration contract gives for a cell: the text is cut at its
\* colons; two colons and three numeric fields give h*3600+m*60+s, one colon
\* and two numeric fields give m*60+s, everything else gives 0
contract_seconds(v) ==
    IF ~IsStr(v) THEN 0
    ELSE
        LET s == v.str
            colons == {i \in 1..Len(s) : s[i] = ":"}
            lo == CHOOSE i \in colons : \A j \in colons : i <= j
            hi == CHOOSE i \in colons : \A j \in colons : i >= j
            a == SubSeq(s, 1, lo - 1)
            b == SubSeq(s, lo + 1, hi - 1)
            c == SubSeq(s, hi + 1, Len(s))
        IN  IF Cardinality(colons) = 2 /\ numeric(a) /\ numeric(b) /\ numeric(c)
                THEN number(a) * 3600 + number(b) * 60 + number(c)
            ELSE IF Cardinality(colons) = 1 /\ numeric(a) /\ numeric(c)
                THEN number(a) * 60 + number(c)
            ELSE 0

\* C3: time_to_seconds is total and gives h*3600+m*60+s for three numeric
\* parts, m*60+s for two numeric parts and 0 for every other cell (empty,
\* "0:00:00", missing, other part counts, non-numeric parts).
C3_TimeToSeconds ==
    pc = "valid" =>
        \A k \in Rows : \A c \in TimeColumnSet :
            df[k][seconds_col(c)] = PyInt(contract_seconds(csv[k][c]))

C3_Witness ==
    /\ pc = "valid"
    /\ csv[1].total_time = Str(<<"1", ":", "1", ":", "1", "0">>)
    /\ df[1].total_time_seconds = PyInt(3670)

seconds_of(row, col) == row[seconds_col(col)].int

\* C4: is_valid is true exactly when the 16 run and work seconds are all
\* strictly positive, whatever the roxzone and aggregate seconds are.
C4_ValidIffAllPositive ==
    pc = "fillna" =>
        \A k \in Rows :
            df[k].is_valid.bool <=>
                \A i \in 1..8 : seconds_of(df[k], run_col[i]) > 0 /\ seconds_of(df[k], work_col[i]) > 0

C4_Witness ==
    /\ pc = "fillna"
    /\ \E i \in 1..8 : seconds_of(df[1], work_col[i]) = 0
    /\ \E j \in 1..8 : seconds_of(df[1], roxzone_col[j]) < 0
    /\ df[1].is_valid = PyBool(FALSE)

\* C5: every document has exactly 8 splits numbered 1..8 in order, and split
\* i carries the run_i, work_i and roxzone_i fields of the document's row.
C5_EightSplits ==
    \A k \in DOMAIN mongo_documents :
        LET sp == mongo_documents[k].splits
        IN  /\ DOMAIN sp = 1..8
            /\ \A i \in 1..8 :
                /\ sp[i].split_number = PyInt(i)
                /\ sp[i].run_time = df[k][run_col[i]]
                /\ sp[i].run_seconds = df[k][seconds_col(run_col[i])]
                /\ sp[i].work_time = df[k][work_col[i]]
                /\ sp[i].work_seconds = df[k][seconds_col(work_col[i])]
                /\ sp[i].roxzone_time = df[k][roxzone_col[i]]
                /\ sp[i].roxzone_seconds = df[k][seconds_col(roxzone_col[i])]

C5_Witness ==
    /\ pc = "open"
    /\ Len(mongo_documents) = 2
    /\ mongo_documents[1].splits[3].run_time = NaN
    /\ mongo_documents[2].splits[8].split_number = PyInt(8)

\* C6: when the script has finished there are as many lines as input rows and
\* line k is the document of input row k.
C6_RowCountAndOrder ==
    pc = "done" =>
        /\ Len(f) = Len(csv)
        /\ \A k \in 1..Len(csv) :
            /\ k \in DOMAIN f
            /\ f[k] = json_dumps(create_mongo_document(df[k])).line
            /\ f[k].event.event_id = json_value(csv[k].event_id)
            /\ f[k].athlete.gender = json_value(csv[k].gender)
            /\ f[k].athlete.division = json_value(csv[k].division)
            /\ f[k].performance.total_time = json_value(csv[k].total_time)
            /\ \A i \in 1..8 : f[k].splits[i].run_time = json_value(csv[k][run_col[i]])

C6_Witness ==
    /\ pc = "done"
    /\ Len(f) = 2
    /\ csv[1].event_id # csv[2].event_id
    /\ csv[1].run_3 # csv[2].run_3

\* C7: every written line is valid JSON and parsing it gives the document
\* back with the same values and types.
C7_RoundTrip ==
    \A k \in DOMAIN f :
        /\ json_loads(f[k]).valid
        /\ json_loads(f[k]).doc = mongo_documents[k]

\* C8: every step leaves the value of every existing field of every row as it
\* was; the only exception is event_name in the event-name correction.
C8_OnlyEventNameChanges ==
    [][\A k \in Rows : \A c \in DOMAIN df[k] :
            \/ pc = "fix_names" /\ c = "event_name"
            \/ k \in DOMAIN df' /\ c \in DOMAIN df'[k] /\ df'[k][c] = df[k][c]]_vars

\* C8 as amended: besides event_name in the correction, line 82 turns the
\* digits of event_year into the integer (a missing one into a missing
\* integer) and lines 157-158 put the defaults in place of a missing
\* nationality and a missing age_group; nothing else changes.
C8_FieldsKeptButThree ==
    [][\A k \in Rows : \A c \in DOMAIN df[k] :
            /\ k \in DOMAIN df'
            /\ c \in DOMAIN df'[k]
            /\ \/ df'[k][c] = df[k][c]
               \/ pc = "fix_names" /\ c = "event_name" /\ df[k].event_id.str \in CorrectionKeys
               \/ /\ pc = "astype" /\ c = "event_year"
                  /\ IF IsStr(df[k][c]) THEN df'[k][c] = PyInt(number(df[k][c].str)) ELSE isna(df'[k][c])
               \/ pc = "fillna" /\ c = "nationality" /\ isna(df[k][c]) /\ df'[k][c] = Str(Unknown)
               \/ pc = "fillna" /\ c = "age_group" /\ isna(df[k][c]) /\ df'[k][c] = Str(NotSpecified)]_vars

C8_Witness ==
    /\ pc = "build"
    /\ df[1].event_name # csv[1].event_name
    /\ df[1].nationality = csv[1].nationality
    /\ df[1].age_group = Str(NotSpecified)
    /\ \A c \in TimeColumnSet \cup {"event_id", "gender", "division"} : df[1][c] = csv[1][c]

\* the words of a name that are exactly four digits
year_words(s) ==
    {i \in 1..Len(split(s)) : Len(split(s)[i]) = 4 /\ \A j \in 1..4 : split(s)[i][j] \in Digit}

\* C9: the document's event_year is the integer of the first word of
\* event_name that is exactly four digits, and null when there is no such word.
C9_YearIsFirstFourDigitWord ==
    pc = "times" =>
        \A k \in Rows :
            LET s == df[k].event_name.str
                w == year_words(s)
            IN  event_year_of(df[k]) =
                    IF w = {} THEN None
                    ELSE PyInt(number(split(s)[CHOOSE i \in w : \A j \in w : i <= j]))

\* C10: a run that fails has not opened the output file and has written
\* nothing; once the file is open the run goes on to write every document.
C10_NoPartialOutput ==
    /\ pc = "failed" => ~f_open /\ f = <<>>
    /\ f_open => pc \in {"write", "done"} /\ exc = "none" /\ Len(mongo_documents) = Len(csv)
    /\ pc = "done" => Len(f) = Len(csv)

C10_Witness ==
    /\ pc = "failed"
    /\ exc = "UnboundLocalError"
    /\ Len(csv) = 2
    /\ ~f_open
    /\ f = <<>>

====
